---- MODULE Spec2Model ----
(***************************************************************************)
(* Model of src/main.py: the Cloud Function that relays GKE upgrade        *)
(* notifications from Pub/Sub to a Slack webhook.                          *)
(*                                                                         *)
(* Text (Python str) and bytes are sequences of numbers: a str is the      *)
(* sequence of its code points, a bytes object the sequence of its bytes.  *)
(* A Python dict is the sequence of its <<key, value>> items in insertion  *)
(* order, with distinct keys.  A call that may raise returns a record      *)
(* [exc, val]: exc = "" when it returns val, else the exception's name.    *)
(***************************************************************************)
EXTENDS Integers, Sequences, FiniteSets, TLC

(***************************************************************************)
(* Bounds of the model.                                                    *)
(***************************************************************************)
\* number of invocations of main the hosting environment runs concurrently
NInv == 2
\* largest number of items of an attributes mapping given to the two helpers
MaxAttrs == 2
\* largest length of an allow-list given to is_allowed_type
MaxList == 2

(***************************************************************************)
(* String literals of the source, as code points.                          *)
(***************************************************************************)
\* 'type_url'
type_url == <<116, 121, 112, 101, 95, 117, 114, 108>>
\* 'SLACK_WEBHOOK_URL'
SLACK_WEBHOOK_URL == <<83, 76, 65, 67, 75, 95, 87, 69, 66, 72, 79, 79, 75, 95, 85, 82, 76>>
\* 'type.googleapis.com/google.container.v1beta1.UpgradeEvent'
UpgradeEvent == <<116, 121, 112, 101, 46, 103, 111, 111, 103, 108, 101, 97, 112, 105, 115, 46, 99, 111, 109, 47, 103, 111, 111, 103, 108, 101, 46, 99, 111, 110, 116, 97, 105, 110, 101, 114, 46, 118, 49, 98, 101, 116, 97, 49, 46, 85, 112, 103, 114, 97, 100, 101, 69, 118, 101, 110, 116>>
\* the allow-list main builds on every invocation
allowed_type_urls == <<UpgradeEvent>>
\* 'https://hooks.slack.com/services/T/B/X', a webhook address
HookUrl == <<104, 116, 116, 112, 115, 58, 47, 47, 104, 111, 111, 107, 115, 46, 115, 108, 97, 99, 107, 46, 99, 111, 109, 47, 115, 101, 114, 118, 105, 99, 101, 115, 47, 84, 47, 66, 47, 88>>
\* 'type.googleapis.com/google.container.v1beta1.upgradeevent' (lower case)
LowerEvent == <<116, 121, 112, 101, 46, 103, 111, 111, 103, 108, 101, 97, 112, 105, 115, 46, 99, 111, 109, 47, 103, 111, 111, 103, 108, 101, 46, 99, 111, 110, 116, 97, 105, 110, 101, 114, 46, 118, 49, 98, 101, 116, 97, 49, 46, 117, 112, 103, 114, 97, 100, 101, 101, 118, 101, 110, 116>>
\* 'some.other.Event'
OtherEvent == <<115, 111, 109, 101, 46, 111, 116, 104, 101, 114, 46, 69, 118, 101, 110, 116>>
\* 'cluster_name'
cluster_name == <<99, 108, 117, 115, 116, 101, 114, 95, 110, 97, 109, 101>>
\* 'payload'
payload == <<112, 97, 121, 108, 111, 97, 100>>
\* 'prod'
prod == <<112, 114, 111, 100>>
\* 'hi'
hi == <<104, 105>>
\* "\n```", the fence marker on a line of its own
Fence == <<10, 96, 96, 96>>
\* "\n\t", the start of an attribute line
LineStart == <<10, 9>>
\* ": ", between a key and its value
KeySep == <<58, 32>>

(***************************************************************************)
(* Python dict: subscription d[k] raises KeyError when k is not a key.     *)
(***************************************************************************)
HasKey(d, k) == \E j \in 1..Len(d) : d[j][1] = k

GetItem(d, k) == d[CHOOSE j \in 1..Len(d) : d[j][1] = k][2]

(***************************************************************************)
(* is_allowed_type: the loop over the allow-list, from its first url.  The *)
(* subscription pubsub_attributes['type_url'] is evaluated on every        *)
(* iteration, and raises KeyError on the first one when the key is absent. *)
(***************************************************************************)
\* variant: the loop gives up after the first url of the list
is_allowed_loop_first_only(pubsub_attributes, urls) ==
    IF urls = <<>>
    THEN [exc |-> "", val |-> FALSE]
    ELSE IF ~HasKey(pubsub_attributes, type_url)
    THEN [exc |-> "KeyError('type_url')", val |-> FALSE]
    ELSE [exc |-> "", val |-> GetItem(pubsub_attributes, type_url) = Head(urls)]

\* variant: pubsub_attributes.get('type_url'), so a missing key matches no url
is_allowed_loop_get(pubsub_attributes, urls) ==
    [exc |-> "",
     val |-> /\ HasKey(pubsub_attributes, type_url)
             /\ \E j \in 1..Len(urls) : urls[j] = GetItem(pubsub_attributes, type_url)]

RECURSIVE is_allowed_loop(_, _)
is_allowed_loop(pubsub_attributes, urls) ==
    IF urls = <<>>
    THEN [exc |-> "", val |-> FALSE]
    ELSE IF ~HasKey(pubsub_attributes, type_url)
    THEN [exc |-> "KeyError('type_url')", val |-> FALSE]
    ELSE IF GetItem(pubsub_attributes, type_url) = Head(urls)
    THEN [exc |-> "", val |-> TRUE]
    ELSE is_allowed_loop(pubsub_attributes, Tail(urls))

\* variant: without the early return for an empty allow-list
is_allowed_type_no_empty_case(pubsub_attributes, urls) ==
    is_allowed_loop(pubsub_attributes, urls)

is_allowed_type(pubsub_attributes, urls) ==
    IF urls = <<>>
    THEN [exc |-> "", val |-> TRUE]
    ELSE is_allowed_loop(pubsub_attributes, urls)

(***************************************************************************)
(* create_slack_message: text starts as data + "\n```", grows by one line  *)
(* per key of the mapping in iteration order, and ends with "\n```".       *)
(***************************************************************************)
\* variant: the loop stops one key early
RECURSIVE create_slack_loop_off_by_one(_, _, _)
create_slack_loop_off_by_one(text, pubsub_attributes, j) ==
    IF j >= Len(pubsub_attributes)
    THEN text
    ELSE LET key == pubsub_attributes[j][1]
         IN  create_slack_loop_off_by_one(
                 text \o LineStart \o key \o KeySep \o GetItem(pubsub_attributes, key),
                 pubsub_attributes, j + 1)

RECURSIVE create_slack_loop(_, _, _)
create_slack_loop(text, pubsub_attributes, j) ==
    IF j > Len(pubsub_attributes)
    THEN text
    ELSE LET key == pubsub_attributes[j][1]
         IN  create_slack_loop(
                 text \o LineStart \o key \o KeySep \o GetItem(pubsub_attributes, key),
                 pubsub_attributes, j + 1)

create_slack_message(data, pubsub_attributes) ==
    create_slack_loop(data \o Fence, pubsub_attributes, 1) \o Fence

(***************************************************************************)
(* base64.b64decode(s) for a str s, as CPython 3.9 computes it: the str is *)
(* encoded to ASCII (ValueError otherwise), then binascii.a2b_base64 runs  *)
(* in its lenient mode: characters outside the alphabet are skipped, a     *)
(* well-placed pad ends the input, and bits left over are an error.        *)
(***************************************************************************)
\* table_a2b_base64: the 6-bit value of an alphabet character, else -1
b64_value(c) ==
    IF c >= 65 /\ c <= 90 THEN c - 65
    ELSE IF c >= 97 /\ c <= 122 THEN c - 71
    ELSE IF c >= 48 /\ c <= 57 THEN c + 4
    ELSE IF c = 43 THEN 62
    ELSE IF c = 47 THEN 63
    ELSE -1

\* binascii_find_valid(s + i, len, num): the num-th next character, from
\* position i on, that the table knows (the pad counts as known); -1 if none
RECURSIVE binascii_find_valid(_, _, _)
binascii_find_valid(s, i, num) ==
    IF i > Len(s) THEN -1
    ELSE IF s[i] <= 127 /\ (b64_value(s[i]) # -1 \/ s[i] = 61)
    THEN IF num = 0 THEN s[i] ELSE binascii_find_valid(s, i + 1, num - 1)
    ELSE binascii_find_valid(s, i + 1, num)

RECURSIVE a2b_base64_loop(_, _, _, _, _, _)
a2b_base64_loop(s, i, quad_pos, leftchar, leftbits, out) ==
    IF i > Len(s)
    THEN [leftbits |-> leftbits, out |-> out]
    ELSE LET c == s[i] IN
         IF c > 127 \/ c \in {13, 10, 32}
         THEN a2b_base64_loop(s, i + 1, quad_pos, leftchar, leftbits, out)
         ELSE IF c = 61
         THEN IF quad_pos < 2 \/ (quad_pos = 2 /\ binascii_find_valid(s, i, 1) # 61)
              THEN a2b_base64_loop(s, i + 1, quad_pos, leftchar, leftbits, out)
              ELSE [leftbits |-> 0, out |-> out]
         ELSE IF b64_value(c) = -1
         THEN a2b_base64_loop(s, i + 1, quad_pos, leftchar, leftbits, out)
         ELSE LET lc == leftchar * 64 + b64_value(c)
                  lb == leftbits + 6
              IN  IF lb >= 8
                  THEN a2b_base64_loop(s, i + 1, (quad_pos + 1) % 4,
                                       lc % (2 ^ (lb - 8)), lb - 8,
                                       Append(out, (lc \div (2 ^ (lb - 8))) % 256))
                  ELSE a2b_base64_loop(s, i + 1, (quad_pos + 1) % 4, lc, lb, out)

b64decode(s) ==
    IF \E j \in 1..Len(s) : s[j] > 127
    THEN [exc |-> "ValueError", val |-> <<>>]
    ELSE LET r == a2b_base64_loop(s, 1, 0, 0, 0, <<>>)
         IN  IF r.leftbits # 0
             THEN [exc |-> "binascii.Error", val |-> <<>>]
             ELSE [exc |-> "", val |-> r.out]

(***************************************************************************)
(* bytes.decode('utf-8'), strict: the code points of a well-formed UTF-8   *)
(* byte sequence, UnicodeDecodeError for anything else (a stray or missing *)
(* continuation byte, an overlong form, a surrogate, a value > U+10FFFF).  *)
(***************************************************************************)
IsCont(b, j) == j <= Len(b) /\ b[j] >= 128 /\ b[j] <= 191

RECURSIVE utf8_loop(_, _, _)
utf8_loop(b, j, out) ==
    IF j > Len(b) THEN [exc |-> "", val |-> out]
    ELSE LET c == b[j] IN
         IF c < 128
         THEN utf8_loop(b, j + 1, Append(out, c))
         ELSE IF c >= 194 /\ c <= 223 /\ IsCont(b, j + 1)
         THEN utf8_loop(b, j + 2, Append(out, (c - 192) * 64 + (b[j + 1] - 128)))
         ELSE IF c >= 224 /\ c <= 239 /\ IsCont(b, j + 1) /\ IsCont(b, j + 2)
                 /\ (c = 224 => b[j + 1] >= 160) /\ (c = 237 => b[j + 1] <= 159)
         THEN utf8_loop(b, j + 3, Append(out, (c - 224) * 4096 + (b[j + 1] - 128) * 64
                                               + (b[j + 2] - 128)))
         ELSE IF c >= 240 /\ c <= 244 /\ IsCont(b, j + 1) /\ IsCont(b, j + 2)
                 /\ IsCont(b, j + 3)
                 /\ (c = 240 => b[j + 1] >= 144) /\ (c = 244 => b[j + 1] <= 143)
         THEN utf8_loop(b, j + 4, Append(out, (c - 240) * 262144 + (b[j + 1] - 128) * 4096
                                               + (b[j + 2] - 128) * 64 + (b[j + 3] - 128)))
         ELSE [exc |-> "UnicodeDecodeError", val |-> <<>>]

utf8_decode(b) == utf8_loop(b, 1, <<>>)

\* line 108: str(base64.b64decode(event['data']).decode('utf-8'))
decode_data(s) ==
    LET raw == b64decode(s)
    IN  IF raw.exc # "" THEN raw ELSE utf8_decode(raw.val)

(***************************************************************************)
(* Inputs.                                                                 *)
(***************************************************************************)
\* the dicts of at most n items over the keys K and the values V
RECURSIVE Dicts(_, _, _)
Dicts(K, V, n) ==
    IF n = 0 THEN {<<>>}
    ELSE LET D == Dicts(K, V, n - 1)
         IN  D \cup {Append(d, <<k, v>>) :
                        d \in {e \in D : Len(e) = n - 1}, k \in K, v \in V}

DistinctKeys(d) == \A j, k \in 1..Len(d) : d[j][1] = d[k][1] => j = k

\* the sequences of at most n elements of S
RECURSIVE Lists(_, _)
Lists(S, n) ==
    IF n = 0 THEN {<<>>}
    ELSE LET L == Lists(S, n - 1)
         IN  L \cup {Append(l, x) : l \in {m \in L : Len(m) = n - 1}, x \in S}

TypeUrls == {UpgradeEvent, LowerEvent, OtherEvent}

\* attributes mappings and allow-lists given to the helpers on their own
HelperAttrs ==
    {d \in Dicts({type_url, cluster_name, payload}, TypeUrls, MaxAttrs) : DistinctKeys(d)}
HelperLists == Lists(TypeUrls, MaxList)
\* decoded texts: empty, plain, and one that itself holds a fence and a tab
HelperTexts == {<<>>, hi, hi \o Fence \o LineStart}

\* event['data'] of an envelope: 'aGk=' (the encoding of 'hi'), 'aGk' (bad
\* padding), '/w==' (the encoding of the byte FF, which is not UTF-8)
EventData == {<<97, 71, 107, 61>>, <<97, 71, 107>>, <<47, 119, 61, 61>>}
\* event['attributes'] of an envelope: the allowed type_url, one that differs
\* from it by case only, no type_url, and the allowed type_url as second key
EventAttrs ==
    { <<<<type_url, UpgradeEvent>>>>,
      <<<<type_url, LowerEvent>>>>,
      <<<<cluster_name, prod>>>>,
      <<<<cluster_name, prod>>, <<type_url, UpgradeEvent>>>> }
Events == [data : EventData, attributes : EventAttrs]
\* os.environ: without the variable, or with it set
Environs == {<<>>, <<<<SLACK_WEBHOOK_URL, HookUrl>>>>}
\* what webhook.send does: a response with the destination's status (200,
\* or a non-success status such as 500), or the exception of a network error
SendOutcomes == {"200", "500", "URLError"}

Invocations == 1..NInv

(***************************************************************************)
(* State.                                                                  *)
(***************************************************************************)
VARIABLES
    environ,            \* os.environ, the one process-wide value main reads
    pc,                 \* per invocation: the line of main it is about to run
    event,              \* per invocation: the event argument
    bound,              \* per invocation: the local names bound so far
    pubsub_attributes,  \* per invocation: local of main (line 104)
    slack_url,          \* per invocation: local of main (line 105)
    data,               \* per invocation: local of main (line 108)
    is_allowed,         \* per invocation: local of main (line 110)
    webhook,            \* per invocation: the url of its WebhookClient (line 113)
    slack_message,      \* per invocation: local of main (line 114)
    response,           \* per invocation: status of the response (line 115)
    posted,             \* per invocation: the calls of webhook.send, in order
    outcome,            \* per invocation: "" while running, "returned", or
                        \* the exception that left main
    helper              \* a call of one of the two helpers on its own

locals == <<bound, pubsub_attributes, slack_url, data, is_allowed, webhook,
            slack_message, response>>
vars == <<environ, pc, event, locals, posted, outcome, helper>>

NoEvent == [data |-> <<>>, attributes |-> <<>>]
NoHelper == [fn |-> "none", attributes |-> <<>>, urls |-> <<>>, data |-> <<>>,
             done |-> FALSE, result |-> [exc |-> "", val |-> <<>>]]

\* no invocation has started
InitMain ==
    /\ pc = [i \in Invocations |-> "idle"]
    /\ event = [i \in Invocations |-> NoEvent]
    /\ bound = [i \in Invocations |-> {}]
    /\ pubsub_attributes = [i \in Invocations |-> <<>>]
    /\ slack_url = [i \in Invocations |-> <<>>]
    /\ data = [i \in Invocations |-> <<>>]
    /\ is_allowed = [i \in Invocations |-> FALSE]
    /\ webhook = [i \in Invocations |-> <<>>]
    /\ slack_message = [i \in Invocations |-> <<>>]
    /\ response = [i \in Invocations |-> ""]
    /\ posted = [i \in Invocations |-> <<>>]
    /\ outcome = [i \in Invocations |-> ""]

Init ==
    /\ environ \in Environs
    /\ InitMain
    /\ helper = NoHelper

(***************************************************************************)
(* main, one action per line.  An exception leaves main at once: the       *)
(* invocation is done and outcome holds the exception.                     *)
(***************************************************************************)
Raise(i, exc) ==
    /\ pc' = [pc EXCEPT ![i] = "done"]
    /\ outcome' = [outcome EXCEPT ![i] = exc]

\* the hosting environment calls main(event, context)
Invoke(i) ==
    /\ pc[i] = "idle"
    /\ \E e \in Events : event' = [event EXCEPT ![i] = e]
    /\ pc' = [pc EXCEPT ![i] = "l104"]
    /\ UNCHANGED <<environ, locals, posted, outcome, helper>>

\* variant: pubsub_attributes is a module-level global, shared by the invocations
Line104_global(i) ==
    /\ pc[i] = "l104"
    /\ pubsub_attributes' = [j \in Invocations |-> event[i].attributes]
    /\ bound' = [bound EXCEPT ![i] = @ \cup {"pubsub_attributes"}]
    /\ pc' = [pc EXCEPT ![i] = "l105"]
    /\ UNCHANGED <<environ, event, slack_url, data, is_allowed, webhook,
                   slack_message, response, posted, outcome, helper>>

\* pubsub_attributes = event['attributes']
Line104(i) ==
    /\ pc[i] = "l104"
    /\ pubsub_attributes' = [pubsub_attributes EXCEPT ![i] = event[i].attributes]
    /\ bound' = [bound EXCEPT ![i] = @ \cup {"pubsub_attributes"}]
    /\ pc' = [pc EXCEPT ![i] = "l105"]
    /\ UNCHANGED <<environ, event, slack_url, data, is_allowed, webhook,
                   slack_message, response, posted, outcome, helper>>

\* variant: os.environ.get('SLACK_WEBHOOK_URL', ''), which never raises
Line105_get(i) ==
    /\ pc[i] = "l105"
    /\ slack_url' = [slack_url EXCEPT ![i] =
                        IF HasKey(environ, SLACK_WEBHOOK_URL)
                        THEN GetItem(environ, SLACK_WEBHOOK_URL) ELSE <<>>]
    /\ bound' = [bound EXCEPT ![i] = @ \cup {"slack_url"}]
    /\ pc' = [pc EXCEPT ![i] = "l108"]
    /\ UNCHANGED <<environ, event, pubsub_attributes, data, is_allowed, webhook,
                   slack_message, response, posted, outcome, helper>>

\* slack_url = os.environ['SLACK_WEBHOOK_URL']
Line105(i) ==
    /\ pc[i] = "l105"
    /\ IF HasKey(environ, SLACK_WEBHOOK_URL)
       THEN /\ slack_url' = [slack_url EXCEPT ![i] = GetItem(environ, SLACK_WEBHOOK_URL)]
            /\ bound' = [bound EXCEPT ![i] = @ \cup {"slack_url"}]
            /\ pc' = [pc EXCEPT ![i] = "l108"]
            /\ UNCHANGED outcome
       ELSE /\ Raise(i, "KeyError('SLACK_WEBHOOK_URL')")
            /\ UNCHANGED <<slack_url, bound>>
    /\ UNCHANGED <<environ, event, pubsub_attributes, data, is_allowed, webhook,
                   slack_message, response, posted, helper>>

\* variant: a failed decoding is swallowed and leaves an empty text
Line108_ignore_errors(i) ==
    /\ pc[i] = "l108"
    /\ LET r == decode_data(event[i].data)
       IN  data' = [data EXCEPT ![i] = IF r.exc = "" THEN r.val ELSE <<>>]
    /\ bound' = [bound EXCEPT ![i] = @ \cup {"data"}]
    /\ pc' = [pc EXCEPT ![i] = "l110"]
    /\ UNCHANGED <<environ, event, pubsub_attributes, slack_url, is_allowed, webhook,
                   slack_message, response, posted, outcome, helper>>

\* data = str(base64.b64decode(event['data']).decode('utf-8'))
Line108(i) ==
    /\ pc[i] = "l108"
    /\ LET r == decode_data(event[i].data)
       IN  IF r.exc = ""
           THEN /\ data' = [data EXCEPT ![i] = r.val]
                /\ bound' = [bound EXCEPT ![i] = @ \cup {"data"}]
                /\ pc' = [pc EXCEPT ![i] = "l110"]
                /\ UNCHANGED outcome
           ELSE /\ Raise(i, r.exc)
                /\ UNCHANGED <<data, bound>>
    /\ UNCHANGED <<environ, event, pubsub_attributes, slack_url, is_allowed, webhook,
                   slack_message, response, posted, helper>>

\* is_allowed = is_allowed_type(pubsub_attributes, allowed_type_urls)
Line110(i) ==
    /\ pc[i] = "l110"
    /\ LET r == is_allowed_type(pubsub_attributes[i], allowed_type_urls)
       IN  IF r.exc = ""
           THEN /\ is_allowed' = [is_allowed EXCEPT ![i] = r.val]
                /\ bound' = [bound EXCEPT ![i] = @ \cup {"is_allowed"}]
                /\ pc' = [pc EXCEPT ![i] = "l112"]
                /\ UNCHANGED outcome
           ELSE /\ Raise(i, r.exc)
                /\ UNCHANGED <<is_allowed, bound>>
    /\ UNCHANGED <<environ, event, pubsub_attributes, slack_url, data, webhook,
                   slack_message, response, posted, helper>>

\* variant: the branch is taken whatever is_allowed holds
Line112_unfiltered(i) ==
    /\ pc[i] = "l112"
    /\ pc' = [pc EXCEPT ![i] = "l113"]
    /\ UNCHANGED <<environ, event, locals, posted, outcome, helper>>

\* if is_allowed: ... ; otherwise main falls off its end and returns None
Line112(i) ==
    /\ pc[i] = "l112"
    /\ IF is_allowed[i]
       THEN /\ pc' = [pc EXCEPT ![i] = "l113"]
            /\ UNCHANGED outcome
       ELSE /\ pc' = [pc EXCEPT ![i] = "done"]
            /\ outcome' = [outcome EXCEPT ![i] = "returned"]
    /\ UNCHANGED <<environ, event, locals, posted, helper>>

\* webhook = WebhookClient(slack_url)
Line113(i) ==
    /\ pc[i] = "l113"
    /\ webhook' = [webhook EXCEPT ![i] = slack_url[i]]
    /\ bound' = [bound EXCEPT ![i] = @ \cup {"webhook"}]
    /\ pc' = [pc EXCEPT ![i] = "l114"]
    /\ UNCHANGED <<environ, event, pubsub_attributes, slack_url, data, is_allowed,
                   slack_message, response, posted, outcome, helper>>

\* variant: the message is built from the payload as it arrived, not decoded
Line114_raw_data(i) ==
    /\ pc[i] = "l114"
    /\ slack_message' = [slack_message EXCEPT ![i] =
                            create_slack_message(event[i].data, pubsub_attributes[i])]
    /\ bound' = [bound EXCEPT ![i] = @ \cup {"slack_message"}]
    /\ pc' = [pc EXCEPT ![i] = "l115"]
    /\ UNCHANGED <<environ, event, pubsub_attributes, slack_url, data, is_allowed,
                   webhook, response, posted, outcome, helper>>

\* slack_message = create_slack_message(data, pubsub_attributes)
Line114(i) ==
    /\ pc[i] = "l114"
    /\ slack_message' = [slack_message EXCEPT ![i] =
                            create_slack_message(data[i], pubsub_attributes[i])]
    /\ bound' = [bound EXCEPT ![i] = @ \cup {"slack_message"}]
    /\ pc' = [pc EXCEPT ![i] = "l115"]
    /\ UNCHANGED <<environ, event, pubsub_attributes, slack_url, data, is_allowed,
                   webhook, response, posted, outcome, helper>>

\* response = webhook.send(text=slack_message): one call on the client; it
\* returns a response whatever status the destination answered, and raises
\* only when no response was received.  main does not look at the response
\* and returns None.
Line115(i) ==
    /\ pc[i] = "l115"
    /\ posted' = [posted EXCEPT ![i] =
                     Append(@, [url |-> webhook[i], text |-> slack_message[i]])]
    /\ \E r \in SendOutcomes :
          IF r = "URLError"
          THEN /\ Raise(i, r)
               /\ UNCHANGED <<response, bound>>
          ELSE /\ response' = [response EXCEPT ![i] = r]
               /\ bound' = [bound EXCEPT ![i] = @ \cup {"response"}]
               /\ pc' = [pc EXCEPT ![i] = "done"]
               /\ outcome' = [outcome EXCEPT ![i] = "returned"]
    /\ UNCHANGED <<environ, event, pubsub_attributes, slack_url, data, is_allowed,
                   webhook, slack_message, helper>>

Next ==
    \E i \in Invocations :
        \/ Invoke(i)
        \/ Line104(i)
        \/ Line105(i)
        \/ Line108(i)
        \/ Line110(i)
        \/ Line112(i)
        \/ Line113(i)
        \/ Line114(i)
        \/ Line115(i)

Spec == Init /\ [][Next]_vars

(***************************************************************************)
(* The two helpers called on their own, on any mapping, list and text.     *)
(***************************************************************************)
InitHelpers ==
    /\ environ = <<>>
    /\ InitMain
    /\ \/ \E a \in HelperAttrs, L \in HelperLists :
             helper = [NoHelper EXCEPT !.fn = "is_allowed_type",
                                       !.attributes = a, !.urls = L]
       \/ \E a \in HelperAttrs, t \in HelperTexts :
             helper = [NoHelper EXCEPT !.fn = "create_slack_message",
                                       !.attributes = a, !.data = t]

CallIsAllowedType ==
    /\ helper.fn = "is_allowed_type"
    /\ ~helper.done
    /\ helper' = [helper EXCEPT !.done = TRUE,
                                !.result = is_allowed_type(helper.attributes, helper.urls)]
    /\ UNCHANGED <<environ, pc, event, locals, posted, outcome>>

CallCreateSlackMessage ==
    /\ helper.fn = "create_slack_message"
    /\ ~helper.done
    /\ helper' = [helper EXCEPT !.done = TRUE,
                                !.result = [exc |-> "",
                                            val |-> create_slack_message(helper.data,
                                                                         helper.attributes)]]
    /\ UNCHANGED <<environ, pc, event, locals, posted, outcome>>

NextHelpers == CallIsAllowedType \/ CallCreateSlackMessage

SpecHelpers == InitHelpers /\ [][NextHelpers]_vars

(***************************************************************************)
(* main run to completion on its own: what one invocation does with event  *)
(* e under environment env when webhook.send, if reached, ends as r.       *)
(***************************************************************************)
main_alone(e, env, r) ==
    IF ~HasKey(env, SLACK_WEBHOOK_URL)
    THEN [outcome |-> "KeyError('SLACK_WEBHOOK_URL')", posted |-> <<>>]
    ELSE LET d == decode_data(e.data)
             a == is_allowed_type(e.attributes, allowed_type_urls)
         IN  IF d.exc # "" THEN [outcome |-> d.exc, posted |-> <<>>]
             ELSE IF a.exc # "" THEN [outcome |-> a.exc, posted |-> <<>>]
             ELSE IF ~a.val THEN [outcome |-> "returned", posted |-> <<>>]
             ELSE [outcome |-> IF r = "URLError" THEN r ELSE "returned",
                   posted |-> <<[url |-> GetItem(env, SLACK_WEBHOOK_URL),
                                 text |-> create_slack_message(d.val, e.attributes)]>>]

(***************************************************************************)
(* The error classes of the specification, as the exceptions of the code.  *)
(***************************************************************************)
ConfigurationError == "KeyError('SLACK_WEBHOOK_URL')"
DecodeErrors == {"binascii.Error", "ValueError", "UnicodeDecodeError"}
MissingAttributeError == "KeyError('type_url')"
DeliveryError == "URLError"

Done(i) == pc[i] = "done"
Malformed(e) == decode_data(e.data).exc # ""
\* the set of the members of a list
Members(L) == {L[j] : j \in 1..Len(L)}

(***************************************************************************)
(* Properties.                                                             *)
(***************************************************************************)

\* C1: an invocation never calls webhook.send more than once, and one that
\* returns without error has called it exactly once when the type_url of its
\* envelope is in the allow-list and not at all when it is not.
C1_OneCallIffAllowed ==
    \A i \in Invocations :
        /\ Len(posted[i]) <= 1
        /\ outcome[i] = "returned" =>
              /\ HasKey(event[i].attributes, type_url)
              /\ Len(posted[i]) =
                    IF GetItem(event[i].attributes, type_url) \in Members(allowed_type_urls)
                    THEN 1 ELSE 0

\* C1 happens: one invocation returned after one call, another after none
C1_Witness ==
    \E i, j \in Invocations :
        /\ outcome[i] = "returned" /\ Len(posted[i]) = 1
        /\ outcome[j] = "returned" /\ Len(posted[j]) = 0
        /\ GetItem(event[j].attributes, type_url) = LowerEvent

\* C2: with a non-empty allow-list and a mapping that has a type_url,
\* is_allowed_type returns, and returns true exactly when the type_url is a
\* member of the list (same code points), whatever the order of the list
\* and the other keys of the mapping.
C2_AllowedIffMember ==
    (/\ helper.fn = "is_allowed_type"
     /\ helper.done
     /\ helper.urls # <<>>
     /\ HasKey(helper.attributes, type_url))
    => /\ helper.result.exc = ""
       /\ helper.result.val =
             (GetItem(helper.attributes, type_url) \in Members(helper.urls))

\* C2 happens: the match is the last url of the list and type_url is the
\* last key; and a url that differs only by case is no match
C2_Witness ==
    /\ helper.fn = "is_allowed_type"
    /\ helper.done
    /\ \/ /\ helper.urls = <<LowerEvent, UpgradeEvent>>
          /\ helper.attributes = <<<<cluster_name, OtherEvent>>, <<type_url, UpgradeEvent>>>>
          /\ helper.result.val = TRUE
       \/ /\ helper.urls = <<LowerEvent, LowerEvent>>
          /\ helper.attributes = <<<<type_url, UpgradeEvent>>>>
          /\ helper.result.val = FALSE

\* C3: with an empty allow-list is_allowed_type returns true, and does not
\* raise, for any mapping, with or without a type_url, empty or not.
C3_EmptyListAllowsAll ==
    (/\ helper.fn = "is_allowed_type"
     /\ helper.done
     /\ helper.urls = <<>>)
    => helper.result = [exc |-> "", val |-> TRUE]

\* C3 happens: the call was made on a non-empty mapping without type_url
C3_Witness ==
    /\ helper.fn = "is_allowed_type"
    /\ helper.done
    /\ helper.urls = <<>>
    /\ helper.attributes # <<>>
    /\ ~HasKey(helper.attributes, type_url)

\* the length of the attribute line of item j, and of the first n lines
LineLen(a, j) == 2 + Len(a[j][1]) + 2 + Len(a[j][2])

RECURSIVE LinesLen(_, _)
LinesLen(a, n) == IF n = 0 THEN 0 ELSE LinesLen(a, n - 1) + LineLen(a, n)

\* C4: the result of create_slack_message is the text, the fence on a new
\* line, one line "\n\t" key ": " value per item of the mapping in its
\* order and nothing else, and the fence on a new line; for the empty
\* mapping it is the text and two fences.
C4_MessageLayout ==
    (/\ helper.fn = "create_slack_message"
     /\ helper.done)
    => LET m == helper.result.val
           d == helper.data
           a == helper.attributes
           start == Len(d) + 4
       IN  /\ helper.result.exc = ""
           /\ Len(m) = start + LinesLen(a, Len(a)) + 4
           /\ SubSeq(m, 1, Len(d)) = d
           /\ SubSeq(m, Len(d) + 1, start) = <<10, 96, 96, 96>>
           /\ \A j \in 1..Len(a) :
                 SubSeq(m, start + LinesLen(a, j - 1) + 1, start + LinesLen(a, j))
                    = <<10, 9>> \o a[j][1] \o <<58, 32>> \o a[j][2]
           /\ SubSeq(m, Len(m) - 3, Len(m)) = <<10, 96, 96, 96>>
           /\ a = <<>> => m = d \o <<10, 96, 96, 96, 10, 96, 96, 96>>

\* C4 happens: a message was built from two attributes and a text that
\* itself holds a fence
C4_Witness ==
    /\ helper.fn = "create_slack_message"
    /\ helper.done
    /\ Len(helper.attributes) = MaxAttrs
    /\ helper.data = hi \o Fence \o LineStart

\* C5: without SLACK_WEBHOOK_URL in the environment, an invocation never
\* gets past line 105: it ends with the KeyError of that lookup and with no
\* other error, it has neither decoded the payload nor run the filter, and
\* it has made no call of webhook.send.
C5_ConfigurationErrorFirst ==
    ~HasKey(environ, SLACK_WEBHOOK_URL) =>
        \A i \in Invocations :
            /\ pc[i] \in {"idle", "l104", "l105", "done"}
            /\ outcome[i] \in {"", ConfigurationError}
            /\ Done(i) => outcome[i] = ConfigurationError
            /\ bound[i] \subseteq {"pubsub_attributes"}
            /\ posted[i] = <<>>

\* C5 happens: the invocation that failed carried an envelope whose payload
\* is malformed and whose attributes lack type_url
C5_Witness ==
    \E i \in Invocations :
        /\ Done(i)
        /\ outcome[i] = ConfigurationError
        /\ Malformed(event[i])
        /\ ~HasKey(event[i].attributes, type_url)

\* C6: once the destination has answered webhook.send with a non-success
\* status, or the call has failed on the network, main does not return
\* normally.
C6_FailedDeliveryFails ==
    \A i \in Invocations :
        (Done(i) /\ posted[i] # <<>> /\ response[i] # "200") => outcome[i] # "returned"

C8_MissingTypeUrlRaises ==
    \A i \in Invocations :
        (pc[i] # "idle" /\ ~HasKey(event[i].attributes, type_url)) =>
            /\ \A L \in HelperLists \ {<<>>} :
                  is_allowed_type(event[i].attributes, L)
                     = [exc |-> MissingAttributeError, val |-> FALSE]
            /\ posted[i] = <<>>
            /\ outcome[i] # "returned"
            /\ "is_allowed" \notin bound[i]
            /\ (Done(i) /\ "data" \in bound[i]) => outcome[i] = MissingAttributeError

\* C8 happens: main ended with the KeyError of the type_url lookup
C8_Witness ==
    \E i \in Invocations :
        /\ Done(i)
        /\ ~HasKey(event[i].attributes, type_url)
        /\ outcome[i] = MissingAttributeError
        /\ "data" \in bound[i]

\* C9: every call of webhook.send is made on the address found in
\* SLACK_WEBHOOK_URL, with the text create_slack_message gives for the
\* decoded payload and the attributes of the invocation's own envelope.
C9_PostedTextIsOwnMessage ==
    \A i \in Invocations :
        \A j \in 1..Len(posted[i]) :
            /\ HasKey(environ, SLACK_WEBHOOK_URL)
            /\ posted[i][j].url = GetItem(environ, SLACK_WEBHOOK_URL)
            /\ ~Malformed(event[i])
            /\ posted[i][j].text =
                  create_slack_message(decode_data(event[i].data).val,
                                       event[i].attributes)

\* C9 happens: two invocations with different envelopes have both posted,
\* one of them an envelope with two attributes
C9_Witness ==
    \E i, j \in Invocations :
        /\ Len(posted[i]) = 1
        /\ Len(posted[j]) = 1
        /\ Len(event[i].attributes) = 2
        /\ event[j].attributes # event[i].attributes
        /\ posted[i][1].text = hi \o Fence \o LineStart \o cluster_name \o KeySep \o prod
                                  \o LineStart \o type_url \o KeySep \o UpgradeEvent \o Fence

\* the part of the state that belongs to invocation i
Own(i) == <<pc[i], event[i], bound[i], pubsub_attributes[i], slack_url[i], data[i],
            is_allowed[i], webhook[i], slack_message[i], response[i], posted[i],
            outcome[i]>>

\* C10: whatever the interleaving, an invocation that is done has the
\* outcome and has made the calls that main makes on its envelope when it
\* runs alone; a step changes the state of one invocation only, and
\* leaves os.environ and the attributes of every envelope as they were.
C10_InvocationsIndependent ==
    /\ [](\A i \in Invocations :
             Done(i) => \E r \in SendOutcomes :
                           /\ main_alone(event[i], environ, r)
                                 = [outcome |-> outcome[i], posted |-> posted[i]]
                           /\ response[i] \in {"", r})
    /\ [][/\ environ' = environ
          /\ \A i, j \in Invocations : (i # j /\ Own(i)' # Own(i)) => Own(j)' = Own(j)
          /\ \A i \in Invocations :
                "pubsub_attributes" \in bound[i] =>
                   /\ event'[i] = event[i]
                   /\ pubsub_attributes'[i] = event[i].attributes]_vars

\* C10 happens: one invocation is done and has posted while another, with
\* a different envelope, is about to post
C10_Witness ==
    \E i, j \in Invocations :
        /\ Done(i) /\ Len(posted[i]) = 1
        /\ pc[j] = "l115"
        /\ event[j] # event[i]
        /\ slack_message[j] # posted[i][1].text

====
